---------------------------- MODULE Spec2Model ----------------------------
(***************************************************************************)
(* Model of the VRP solver: the route optimizer and capacity validator of  *)
(* algorithms/routing.py, the recursive partition search of                *)
(* algorithms/recursive_solver.py and the comparator of models/solution.py *)
(* over the problem tables of models/data.py.                              *)
(***************************************************************************)
EXTENDS Integers, Sequences, FiniteSets, TLC

(***************************************************************************)
(* Problem tables (models/data.py).  Node ids are 0-based as in the source;*)
(* TLA+ sequences are 1-based, hence Dist.                                 *)
(***************************************************************************)
distance_matrix ==
  << <<0, 80, 10, 15, 10, 35, 30, 10, 55>>,
     <<80, 0, 70, 60, 50, 40, 35, 70, 50>>,
     <<10, 70, 0, 20, 10, 40, 40, 40, 50>>,
     <<15, 60, 20, 0, 20, 30, 20, 5, 60>>,
     <<10, 50, 10, 20, 0, 20, 5, 20, 50>>,
     <<35, 40, 40, 30, 20, 0, 10, 10, 70>>,
     <<30, 35, 40, 20, 5, 10, 0, 25, 60>>,
     <<10, 70, 40, 5, 20, 10, 25, 0, 65>>,
     <<55, 50, 50, 60, 50, 70, 60, 65, 0>> >>

\* Python list indexing: index i of a list of length n is position i + 1 for
\* 0 <= i < n and position n + i + 1 for -n <= i < 0; any other index raises
\* IndexError
IndexInRange(i) == -Len(distance_matrix) <= i /\ i < Len(distance_matrix)
PyIndex(i) == IF i < 0 THEN Len(distance_matrix) + i + 1 ELSE i + 1

\* distance_matrix[a][b]
Dist(a, b) == distance_matrix[PyIndex(a)][PyIndex(b)]

\* the dict demands as the module models/data.py sets it when it is loaded, and
\* active_delivery_nodes = list(demands.keys()) at that moment
InitialDemands ==
  (1 :> <<1, 0>>) @@ (2 :> <<0, 2>>) @@ (3 :> <<1, 2>>) @@
  (4 :> <<1, 0>>) @@ (5 :> <<0, 2>>) @@ (6 :> <<0, 2>>)

InitialActiveDeliveryNodes == <<1, 2, 3, 4, 5, 6>>

\* A vehicle is the tuple (name, fixed_cost, h_cap, k_cap, fuel_cost).
vehicle_choices ==
  << <<"V", 150, 2, 2, 1>>,
     <<"W", 200, 3, 3, 1>>,
     <<"X", 250, 4, 4, 1>>,
     <<"Y", 350, 5, 5, 1>>,
     <<"Z", 600, 6, 6, 1>> >>

\* float('inf'): larger than every cost, count and distance of the model.
Inf == 1000000

Hub == 0
G == 5
H == 6

(***************************************************************************)
(* Python list and itertools helpers.                                      *)
(***************************************************************************)
\* list.insert(i, x) on a copy, i a 0-based index; i beyond the end appends.
Insert(s, i, x) ==
  LET k == IF i > Len(s) THEN Len(s) ELSE i
  IN  SubSeq(s, 1, k) \o <<x>> \o SubSeq(s, k + 1, Len(s))

\* s without its p-th element
RemoveAt(s, p) == SubSeq(s, 1, p - 1) \o SubSeq(s, p + 1, Len(s))

InSeq(x, s) == \E k \in 1..Len(s) : s[k] = x

RECURSIVE SumSeq(_)
SumSeq(s) == IF s = <<>> THEN 0 ELSE Head(s) + SumSeq(Tail(s))

RECURSIVE Concat(_)
Concat(ss) == IF ss = <<>> THEN <<>> ELSE Head(ss) \o Concat(Tail(ss))

\* itertools.permutations(s): lexicographic in the positions of s
RECURSIVE permutations(_)
permutations(s) ==
  IF s = <<>> THEN << <<>> >>
  ELSE Concat([p \in 1..Len(s) |->
         LET rest == permutations(RemoveAt(s, p))
         IN  [q \in 1..Len(rest) |-> <<s[p]>> \o rest[q]]])

\* itertools.combinations(s, r): lexicographic in the positions of s
RECURSIVE combinations(_, _)
combinations(s, r) ==
  IF r = 0 THEN << <<>> >>
  ELSE IF Len(s) < r THEN <<>>
  ELSE LET with == combinations(Tail(s), r - 1)
       IN  [q \in 1..Len(with) |-> <<Head(s)>> \o with[q]]
           \o combinations(Tail(s), r)

(***************************************************************************)
(* algorithms/routing.py                                                   *)
(***************************************************************************)
\* sum(distance_matrix[p[k]][p[k+1]] for k in range(len(p) - 1))
PathDistance(p) == SumSeq([k \in 1..(Len(p) - 1) |-> Dist(p[k], p[k + 1])])

\* variant: the return to the hub is never appended
ReturnToHub_never(p) == p

\* if test_path[-1] != 0: test_path.append(0)
ReturnToHub(p) == IF p[Len(p)] # Hub THEN Append(p, Hub) ELSE p

\* for i in range(1, n + 1): for j in range(i, n + 2): the pairs (i, j) in loop order
RECURSIVE InsertionPairs(_, _, _)
InsertionPairs(i, j, n) ==
  IF i > n THEN <<>>
  ELSE IF j > n + 1 THEN InsertionPairs(i + 1, i + 1, n)
  ELSE << <<i, j>> >> \o InsertionPairs(i, j + 1, n)

\* the test paths of one double loop: insert `first` at i, then `second` at j
TwoInsertions(path, first, second) ==
  LET ij == InsertionPairs(1, 1, Len(path))
  IN  [q \in 1..Len(ij) |->
        ReturnToHub(Insert(Insert(path, ij[q][1], first), ij[q][2], second))]

\* the test paths of one single loop: insert w at i in range(1, n + 1)
OneInsertion(path, w) ==
  [i \in 1..Len(path) |-> ReturnToHub(Insert(path, i, w))]

\* least element of a non-empty set of integers
MinOf(S) == CHOOSE x \in S : \A y \in S : x <= y

\* best_distance = inf; best_full_path = None; each test path in turn replaces the
\* best on test_distance < best_distance: the first test path of least distance
\* is kept, if that distance is below the starting one
KeepBest(tests, best) ==
  LET ds == {PathDistance(tests[q]) : q \in 1..Len(tests)}
  IN  IF ds = {} \/ MinOf(ds) >= best[1] THEN best
      ELSE LET q == MinOf({r \in 1..Len(tests) : PathDistance(tests[r]) = MinOf(ds)})
           IN  <<MinOf(ds), tests[q]>>

\* variant: the waypoints are only appended after the last node, in either order
calculate_route_distance_append_only(path) ==
  KeepBest(<<path \o <<G, H, Hub>>, path \o <<H, G, Hub>>>>, <<Inf, <<>>>>)

\* calculate_route_distance(path) = (total_distance, full_path)
calculate_route_distance(path) ==
  LET g_in_path == InSeq(G, path)
      h_in_path == InSeq(H, path)
  IN  IF ~g_in_path /\ ~h_in_path
        THEN KeepBest(TwoInsertions(path, G, H) \o TwoInsertions(path, H, G),
                      <<Inf, <<>>>>)
      ELSE IF ~g_in_path THEN KeepBest(OneInsertion(path, G), <<Inf, <<>>>>)
      ELSE IF ~h_in_path THEN KeepBest(OneInsertion(path, H), <<Inf, <<>>>>)
      ELSE <<PathDistance(ReturnToHub(path)), ReturnToHub(path)>>

\* the loop of find_best_route over the permutations: (best_path, best_distance,
\* best_final_path), replaced on distance < best_distance: the first permutation
\* of least distance is kept, if that distance is below the starting one
BestPermutation(perms, best) ==
  LET rs == [q \in 1..Len(perms) |-> calculate_route_distance(<<Hub>> \o perms[q])] @@ <<>>
      ds == {rs[q][1] : q \in 1..Len(perms)}
  IN  IF ds = {} \/ MinOf(ds) >= best[2] THEN best
      ELSE LET q == MinOf({r \in 1..Len(perms) : rs[r][1] = MinOf(ds)})
           IN  <<<<Hub>> \o perms[q], rs[q][1], rs[q][2]>>

\* variant: the waypoints stay among the nodes to permute
permutation_nodes_unfiltered(nodes) == nodes

\* [n for n in nodes if n not in [5, 6]]
RECURSIVE permutation_nodes(_)
permutation_nodes(nodes) ==
  IF nodes = <<>> THEN <<>>
  ELSE IF Head(nodes) \in {G, H} THEN permutation_nodes(Tail(nodes))
  ELSE <<Head(nodes)>> \o permutation_nodes(Tail(nodes))

\* variant: on equal distances the empty case returns Hub -> H -> G -> Hub
EmptyRoute_strict ==
  LET path1 == <<Hub, G, H, Hub>>
      path2 == <<Hub, H, G, Hub>>
      dist1 == PathDistance(path1)
      dist2 == PathDistance(path2)
  IN  IF dist1 < dist2 THEN <<<<Hub>>, dist1, path1>>
      ELSE <<<<Hub>>, dist2, path2>>

\* if not nodes: Hub -> G -> H -> Hub or Hub -> H -> G -> Hub
EmptyRoute ==
  LET path1 == <<Hub, G, H, Hub>>
      path2 == <<Hub, H, G, Hub>>
      dist1 == PathDistance(path1)
      dist2 == PathDistance(path2)
  IN  IF dist1 <= dist2 THEN <<<<Hub>>, dist1, path1>>
      ELSE <<<<Hub>>, dist2, path2>>

\* the outcome of a call that an IndexError of a distance lookup leaves
IndexError == <<"IndexError">>

\* find_best_route(nodes) = (best_path, best_distance, final_path); the first test
\* path of the first permutation holds every node to permute, so an index out of
\* range raises there
find_best_route(nodes) ==
  IF nodes = <<>> THEN EmptyRoute
  ELSE IF \E k \in 1..Len(nodes) : nodes[k] \notin {G, H} /\ ~IndexInRange(nodes[k])
    THEN IndexError
  ELSE BestPermutation(permutations(permutation_nodes(nodes)), <<<<>>, Inf, <<>>>>)

\* the two module globals of models/data.py that add_node_demand and
\* remove_node_demand change
VARIABLES
  demands,                \* dict node -> (H demand, K demand)
  active_delivery_nodes,  \* list of the nodes with a demand entry
  removed                 \* <<>>, or <<value the last remove_node_demand returned>>

demandVars == <<demands, active_delivery_nodes, removed>>

\* is_valid_assignment(nodes, h_cap, k_cap); nodes without a demand entry are skipped
DemandSum(nodes, c) ==
  SumSeq([k \in 1..Len(nodes) |->
            IF nodes[k] \in DOMAIN demands THEN demands[nodes[k]][c] ELSE 0])

\* variant: only the H capacity is compared
is_valid_assignment_h_only(nodes, h_cap, k_cap) == DemandSum(nodes, 1) <= h_cap

\* variant: a load equal to the capacity is rejected
is_valid_assignment_strict(nodes, h_cap, k_cap) ==
  DemandSum(nodes, 1) < h_cap /\ DemandSum(nodes, 2) < k_cap

is_valid_assignment(nodes, h_cap, k_cap) ==
  DemandSum(nodes, 1) <= h_cap /\ DemandSum(nodes, 2) <= k_cap


(***************************************************************************)
(* models/solution.py                                                      *)
(***************************************************************************)
\* variant: fewer vehicles wins whatever the costs
is_better_than_any_cost(self, other_solution) ==
  IF ~other_solution.completed THEN self.completed
  ELSE IF ~self.completed THEN FALSE
  ELSE IF self.cost < other_solution.cost THEN TRUE
  ELSE IF self.vehicles_used < other_solution.vehicles_used THEN TRUE
  ELSE IF self.cost = other_solution.cost
          /\ self.vehicles_used = other_solution.vehicles_used
          /\ self.total_distance < other_solution.total_distance THEN TRUE
  ELSE FALSE

\* VRPSolution.is_better_than(self, other_solution)
is_better_than(self, other_solution) ==
  IF ~other_solution.completed THEN self.completed
  ELSE IF ~self.completed THEN FALSE
  ELSE IF self.cost < other_solution.cost THEN TRUE
  ELSE IF self.cost = other_solution.cost
          /\ self.vehicles_used < other_solution.vehicles_used THEN TRUE
  ELSE IF self.cost = other_solution.cost
          /\ self.vehicles_used = other_solution.vehicles_used
          /\ self.total_distance < other_solution.total_distance THEN TRUE
  ELSE FALSE

(***************************************************************************)
(* algorithms/recursive_solver.py: find_optimal_solution as a machine over *)
(* an explicit call stack.  current_solution and used_vehicles are the     *)
(* objects shared by all calls; best_solution is the value handed down and *)
(* returned up.                                                            *)
(***************************************************************************)
VARIABLES
  call,              \* the top-level call: function and arguments
  stack,             \* active calls of find_optimal_solution, innermost last
  current_solution,  \* list of trips
  used_vehicles,     \* set of vehicle names
  best_solution,     \* dict of the best solution so far
  status,            \* "running" | "returned" | "raised" | "done"
  result,            \* value returned to the caller of the top-level function
  route_in,          \* route optimizer run: the nodes argument
  route_out,         \* route optimizer run: <<>> before the call, then the result
  cmp_a, cmp_b, cmp_c,  \* comparator run: three solution records
  cmp_out,           \* comparator run: <<>> before, then the six comparisons
  route_in2,         \* route optimizer run: the same nodes in another order
  route_out2,        \* route optimizer run: <<>>, then the result for route_in2
  valid_in,          \* capacity validator run: (nodes, h_cap, k_cap)
  valid_out          \* capacity validator run: <<>>, then <<returned value>>

vars == <<call, stack, current_solution, used_vehicles, best_solution, status,
          result, route_in, route_out, cmp_a, cmp_b, cmp_c, cmp_out,
          route_in2, route_out2, valid_in, valid_out, demandVars>>

searchVars == <<call, stack, current_solution, used_vehicles, best_solution,
                status, result>>
routeVars == <<route_in, route_out, route_in2, route_out2>>
cmpVars == <<cmp_a, cmp_b, cmp_c, cmp_out>>
validVars == <<valid_in, valid_out>>

\* trip = (name, fixed_cost, nodes_subset, path, distance, fuel_cost_per_unit, final_path)
TripName(t) == t[1]
TripFixed(t) == t[2]
TripNodes(t) == t[3]
TripDistance(t) == t[5]
TripFuel(t) == t[6]
TripFinalPath(t) == t[7]

\* the default best_solution of a top-level call
InitialBest ==
  [trips |-> <<>>, cost |-> Inf, fixed_cost |-> 0, fuel_cost |-> 0,
   vehicles_used |-> Inf, total_distance |-> Inf, completed |-> FALSE]

\* list(a set of small non-negative ints): CPython iterates it in ascending order
RECURSIVE ListOfSet(_)
ListOfSet(S) ==
  IF S = {} THEN <<>>
  ELSE LET m == CHOOSE x \in S : \A y \in S : x <= y
       IN  <<m>> \o ListOfSet(S \ {m})

SetOfSeq(s) == {s[k] : k \in 1..Len(s)}

\* variant: the subset sizes go up from 1
NodeSubsets_smallest_first(nodes) ==
  Concat([k \in 1..Len(nodes) |-> combinations(nodes, k)])

\* for subset_size in range(len, 0, -1): for nodes_subset in combinations(...)
NodeSubsets(nodes) ==
  Concat([k \in 1..Len(nodes) |-> combinations(nodes, Len(nodes) + 1 - k)])

\* sum(trip[1] for trip in current_solution)
FixedCostOf(trips) == SumSeq([k \in 1..Len(trips) |-> TripFixed(trips[k])])
\* variant: the fuel cost is the distance, whatever the vehicle's fuel cost per unit
FuelCostOf_distance_only(trips) ==
  SumSeq([k \in 1..Len(trips) |-> TripDistance(trips[k])])

\* sum(trip[4] * trip[5] for trip in current_solution)
FuelCostOf(trips) ==
  SumSeq([k \in 1..Len(trips) |-> TripDistance(trips[k]) * TripFuel(trips[k])])
\* sum(trip[4] for trip in current_solution)
DistanceOf(trips) == SumSeq([k \in 1..Len(trips) |-> TripDistance(trips[k])])

\* variant: the base case does not mark its candidate as completed
Candidate_not_completed(trips) ==
  [trips |-> trips,
   cost |-> FixedCostOf(trips) + FuelCostOf(trips),
   fixed_cost |-> FixedCostOf(trips),
   fuel_cost |-> FuelCostOf(trips),
   vehicles_used |-> Len(trips),
   total_distance |-> DistanceOf(trips),
   completed |-> FALSE]

\* the candidate built by the base case from current_solution
Candidate(trips) ==
  [trips |-> trips,
   cost |-> FixedCostOf(trips) + FuelCostOf(trips),
   fixed_cost |-> FixedCostOf(trips),
   fuel_cost |-> FuelCostOf(trips),
   vehicles_used |-> Len(trips),
   total_distance |-> DistanceOf(trips),
   completed |-> TRUE]

\* variant: the distance tie-break is missing
better_solution_no_distance(cand, best) ==
  IF ~best.completed THEN TRUE
  ELSE IF cand.cost < best.cost THEN TRUE
  ELSE IF cand.cost = best.cost /\ cand.vehicles_used < best.vehicles_used THEN TRUE
  ELSE FALSE

\* variant: only a smaller cost is accepted
better_solution_cost_only(cand, best) ==
  IF ~best.completed THEN TRUE
  ELSE IF cand.cost < best.cost THEN TRUE
  ELSE FALSE

\* variant: a candidate of equal cost, vehicle count and distance is accepted too
better_solution_or_equal(cand, best) ==
  IF ~best.completed THEN TRUE
  ELSE IF cand.cost < best.cost THEN TRUE
  ELSE IF cand.cost = best.cost /\ cand.vehicles_used < best.vehicles_used THEN TRUE
  ELSE IF cand.cost = best.cost /\ cand.vehicles_used = best.vehicles_used
          /\ cand.total_distance <= best.total_distance THEN TRUE
  ELSE FALSE

\* the inline acceptance test of the base case (better_solution)
better_solution(cand, best) ==
  IF ~best.completed THEN TRUE
  ELSE IF cand.cost < best.cost THEN TRUE
  ELSE IF cand.cost = best.cost /\ cand.vehicles_used < best.vehicles_used THEN TRUE
  ELSE IF cand.cost = best.cost /\ cand.vehicles_used = best.vehicles_used
          /\ cand.total_distance < best.total_distance THEN TRUE
  ELSE FALSE

\* variant: the used vehicles are not filtered out
UnusedVehicles_unfiltered(vehicles, used) == vehicles

\* [v for v in available_vehicles if v[0] not in used_vehicles]
UnusedVehicles(vehicles, used) ==
  LET RECURSIVE F(_)
      F(s) == IF s = <<>> THEN <<>>
              ELSE IF Head(s)[1] \in used THEN F(Tail(s))
              ELSE <<Head(s)>> \o F(Tail(s))
  IN  F(vehicles)

\* variant: the dearest unused vehicle is taken for the bound
min_additional_fixed_cost_largest(vehicles, used) ==
  LET u == UnusedVehicles(vehicles, used)
  IN  IF u = <<>> THEN Inf
      ELSE CHOOSE m \in {u[k][2] : k \in 1..Len(u)} :
             \A k \in 1..Len(u) : m >= u[k][2]

\* min((v[1] for v in available_vehicles if v[0] not in used_vehicles), default=inf)
min_additional_fixed_cost(vehicles, used) ==
  LET u == UnusedVehicles(vehicles, used)
  IN  IF u = <<>> THEN Inf
      ELSE CHOOSE m \in {u[k][2] : k \in 1..Len(u)} :
             \A k \in 1..Len(u) : m <= u[k][2]

\* min_dist_between_nodes = 5
min_dist_between_nodes == 5

\* min_additional_fuel_cost: min_dist_between_nodes * len(nodes_to_assign), 0 for
\* no nodes; the source assigns it and reads it nowhere
min_additional_fuel_cost(nodes_to_assign) ==
  IF nodes_to_assign # {} THEN min_dist_between_nodes * Cardinality(nodes_to_assign)
  ELSE 0

\* variant: the branch is abandoned as soon as its bound passes a tenth of the best
\* cost (0.1 for 1.1)
PruneTest_tenth(trips, vehicles, used, best) ==
  10 * (FixedCostOf(trips) + FuelCostOf(trips)
        + min_additional_fixed_cost(vehicles, used)) > best.cost

\* current_cost + min_additional_fixed_cost > best_solution["cost"] * 1.1,
\* in tenths (all costs of the model are integers)
PruneTest(trips, vehicles, used, best) ==
  10 * (FixedCostOf(trips) + FuelCostOf(trips)
        + min_additional_fixed_cost(vehicles, used)) > 11 * best.cost

\* the sort key (v[2] + v[3]) / (v[1] + 10 * v[4]) as numerator and denominator
KeyNum(v) == v[3] + v[4]
KeyDen(v) == v[2] + 10 * v[5]
\* key(v) > key(w), key(v) = key(w) for positive denominators
KeyGreater(v, w) == KeyNum(v) * KeyDen(w) > KeyNum(w) * KeyDen(v)
KeyEqual(v, w) == KeyNum(v) * KeyDen(w) = KeyNum(w) * KeyDen(v)

\* variant: the unused vehicles are tried as listed
SortedByEfficiency_as_listed(u) == u

\* sorted(u, key=..., reverse=True): descending, equal keys keep their order
SortedByEfficiency(u) ==
  LET rank(i) == Cardinality({j \in 1..Len(u) : KeyGreater(u[j], u[i])})
                 + Cardinality({j \in 1..(i - 1) : KeyEqual(u[j], u[i])}) + 1
  IN  [r \in 1..Len(u) |-> u[CHOOSE i \in 1..Len(u) : rank(i) = r]]

\* the key of some vehicle to sort divides by zero
KeyRaises(u) == \E k \in 1..Len(u) : KeyDen(u[k]) = 0

(***************************************************************************)
(* Inputs of the model.                                                    *)
(***************************************************************************)
MaxNodes == 3        \* most nodes in the nodes_to_assign of a direct call
MaxVehicles == 2     \* most vehicles in the available_vehicles of a direct call
MaxRestricted == 1   \* most names in the restricted_vehicles of solve_vehicle_routing

\* node ids a direct call may be given: the demand nodes and E (7), a node of
\* the distance table without a demand entry
NodeUniverse == {1, 2, 3, 4, 5, 6, 7}

\* vehicles a direct call may be given: two of vehicle_choices, a second vehicle
\* with V's figures, a vehicle that costs nothing, and two that burn no fuel
VehiclePool ==
  << <<"V", 150, 2, 2, 1>>,
     <<"W", 200, 3, 3, 1>>,
     <<"T", 150, 2, 2, 1>>,
     <<"F", 0, 2, 2, 0>>,
     <<"P", 100, 2, 2, 0>>,
     <<"B", 65, 1, 1, 0>> >>

\* lists of at most MaxVehicles vehicles of the pool, no vehicle twice
VehicleLists ==
  LET idx == UNION {[1..k -> 1..Len(VehiclePool)] : k \in 0..MaxVehicles}
  IN  {[k \in 1..Len(ix) |-> VehiclePool[ix[k]]] :
         ix \in {jx \in idx : \A a, b \in 1..Len(jx) : a # b => jx[a] # jx[b]}}

NodeSets == {S \in SUBSET NodeUniverse : Cardinality(S) <= MaxNodes}

VehicleNames == {vehicle_choices[k][1] : k \in 1..Len(vehicle_choices)}

\* restricted_vehicles: None (given = FALSE) or a collection of names
RestrictedChoices ==
  {[given |-> FALSE, names |-> {}]}
  \cup {[given |-> TRUE, names |-> R] :
          R \in {Q \in SUBSET VehicleNames : Cardinality(Q) <= MaxRestricted}}

\* if restricted_vehicles: [v for v in vehicle_choices if v[0] in restricted_vehicles]
\* else: vehicle_choices  (None and an empty collection are both falsy)
RestrictedVehicles(restricted) ==
  IF restricted.given /\ restricted.names # {}
    THEN UnusedVehicles(vehicle_choices, VehicleNames \ restricted.names)
    ELSE vehicle_choices

NoRestriction == [given |-> FALSE, names |-> {}]

DirectCalls ==
  {[fn |-> "find_optimal_solution", nodes_to_assign |-> S,
    available_vehicles |-> vs, restricted_vehicles |-> NoRestriction] :
     S \in NodeSets, vs \in VehicleLists}

\* solve_vehicle_routing: nodes_to_assign = set(demands.keys()), read from the
\* table when the call is made
SolveCallsOn(table) ==
  {[fn |-> "solve_vehicle_routing", nodes_to_assign |-> DOMAIN table,
    available_vehicles |-> RestrictedVehicles(r), restricted_vehicles |-> r] :
     r \in RestrictedChoices}

SolveCalls == SolveCallsOn(demands)

\* add_node_demand: demands[node] = (h_demand, k_demand)
DemandsWith(table, node, h_demand, k_demand) ==
  [n \in DOMAIN table \cup {node} |->
     IF n = node THEN <<h_demand, k_demand>> ELSE table[n]]

\* remove_node_demand: del demands[node]
DemandsWithout(table, node) == [n \in DOMAIN table \ {node} |-> table[n]]

\* the arguments of the calls of add_node_demand and remove_node_demand: the
\* entry of node 3 is removed, and set to the value it has when loaded
AddInputs == {<<3, 1, 2>>}
RemoveInputs == {3}

\* the tables the calls of the model can produce
RECURSIVE TablesFrom(_)
TablesFrom(T) ==
  LET more == T \cup {DemandsWith(t, a[1], a[2], a[3]) : t \in T, a \in AddInputs}
                \cup {DemandsWithout(t, n) : t \in T, n \in RemoveInputs}
  IN  IF more = T THEN T ELSE TablesFrom(more)

DemandTables == TablesFrom({InitialDemands})

\* the values nodes_to_assign takes in the calls of the model
SearchNodeSets == NodeSets \cup UNION {SUBSET (DOMAIN t) : t \in DemandTables}

\* remaining_nodes = list(nodes_to_assign) with its subsets in loop order, and
\* find_best_route(nodes_subset), for every node set and subset the search can
\* meet, tabulated once
NodeSubsetsOf == [S \in SearchNodeSets |-> NodeSubsets(ListOfSet(S))] @@ <<>>
RouteOf == [t \in {ListOfSet(S) : S \in SearchNodeSets} |-> find_best_route(t)] @@ <<>>

\* a call at its entry; entry_solution and entry_used record the values that the
\* shared current_solution and used_vehicles have at that moment
EntryFrame(nodes, solution, used) ==
  [nodes_to_assign |-> nodes, pc |-> "entry", sorted_vehicles |-> <<>>,
   vi |-> 0, si |-> 0, entry_solution |-> solution, entry_used |-> used]

IdleRoute == route_in = <<>> /\ route_out = <<>> /\ route_in2 = <<>> /\ route_out2 = <<>>
IdleValid == valid_in = <<>> /\ valid_out = <<>>
IdleCmp == cmp_a = InitialBest /\ cmp_b = InitialBest /\ cmp_c = InitialBest
           /\ cmp_out = <<>>
\* models/data.py has just been loaded
AsLoaded ==
  /\ demands = InitialDemands
  /\ active_delivery_nodes = InitialActiveDeliveryNodes
  /\ removed = <<>>

IdleSearch ==
  /\ call = [fn |-> "none", nodes_to_assign |-> {}, available_vehicles |-> <<>>,
             restricted_vehicles |-> NoRestriction]
  /\ stack = <<>>
  /\ current_solution = <<>>
  /\ used_vehicles = {}
  /\ best_solution = InitialBest
  /\ status = "idle"
  /\ result = <<>>

\* the state at the entry of the top-level find_optimal_solution
Init ==
  /\ AsLoaded
  /\ call \in DirectCalls \cup SolveCalls
  /\ stack = <<EntryFrame(call.nodes_to_assign, <<>>, {})>>
  /\ current_solution = <<>>
  /\ used_vehicles = {}
  /\ best_solution = InitialBest
  /\ status = "running"
  /\ result = <<>>
  /\ IdleRoute
  /\ IdleCmp
  /\ IdleValid

(***************************************************************************)
(* The steps of find_optimal_solution.                                     *)
(***************************************************************************)
Top == stack[Len(stack)]
Running == status = "running" /\ stack # <<>>

\* `return best`: the innermost call ends; its caller goes on to backtrack, and
\* the top-level call hands the value to whoever called it
Return(best) ==
  /\ best_solution' = best
  /\ IF Len(stack) = 1
       THEN /\ stack' = <<>>
            /\ IF call.fn = "find_optimal_solution"
                 THEN status' = "done" /\ result' = best
                 ELSE status' = "returned" /\ result' = result
       ELSE /\ stack' = [SubSeq(stack, 1, Len(stack) - 1)
                           EXCEPT ![Len(stack) - 1].pc = "backtrack"]
            /\ UNCHANGED <<status, result>>

\* base case: no nodes left; evaluate current_solution and return
TerminalEvaluation ==
  /\ Running /\ Top.pc = "entry" /\ Top.nodes_to_assign = {}
  /\ LET cand == Candidate(current_solution)
     IN  Return(IF better_solution(cand, best_solution) THEN cand ELSE best_solution)
  /\ UNCHANGED <<call, current_solution, used_vehicles,
                 routeVars, cmpVars, validVars, demandVars>>

\* the pruning test on the values the innermost call sees
ActivePruneTest ==
  PruneTest(current_solution, call.available_vehicles, used_vehicles, best_solution)

\* pruning: a complete solution is known and the bound exceeds 1.1 times its cost
Prune ==
  /\ Running /\ Top.pc = "entry" /\ Top.nodes_to_assign # {}
  /\ best_solution.completed
  /\ ActivePruneTest
  /\ Return(best_solution)
  /\ UNCHANGED <<call, current_solution, used_vehicles,
                 routeVars, cmpVars, validVars, demandVars>>

NotPruned == ~(best_solution.completed /\ ActivePruneTest)

\* sorted(...) of the unused vehicles; the loops start at the first vehicle and subset
SortVehicles ==
  /\ Running /\ Top.pc = "entry" /\ Top.nodes_to_assign # {}
  /\ NotPruned
  /\ ~KeyRaises(UnusedVehicles(call.available_vehicles, used_vehicles))
  /\ stack' = [stack EXCEPT ![Len(stack)] =
                 [@ EXCEPT !.pc = "loop",
                           !.sorted_vehicles = SortedByEfficiency(
                              UnusedVehicles(call.available_vehicles, used_vehicles)),
                           !.vi = 1, !.si = 1]]
  /\ UNCHANGED <<call, current_solution, used_vehicles, best_solution, status,
                 result,
                 routeVars, cmpVars, validVars, demandVars>>

\* the sort key divides by zero: ZeroDivisionError leaves every active call
SortRaises ==
  /\ Running /\ Top.pc = "entry" /\ Top.nodes_to_assign # {}
  /\ NotPruned
  /\ KeyRaises(UnusedVehicles(call.available_vehicles, used_vehicles))
  /\ status' = "raised"
  /\ stack' = <<>>
  /\ UNCHANGED <<call, current_solution, used_vehicles, best_solution, result,
                 routeVars, cmpVars, validVars, demandVars>>

InLoop == Running /\ Top.pc = "loop"
CurrentVehicle == Top.sorted_vehicles[Top.vi]
CurrentSubset == NodeSubsetsOf[Top.nodes_to_assign][Top.si]
SubsetCount == Len(NodeSubsetsOf[Top.nodes_to_assign])

\* is_valid_assignment rejects the subset: continue with the next one
SkipSubset ==
  /\ InLoop /\ Top.vi <= Len(Top.sorted_vehicles) /\ Top.si <= SubsetCount
  /\ ~is_valid_assignment(CurrentSubset, CurrentVehicle[3], CurrentVehicle[4])
  /\ stack' = [stack EXCEPT ![Len(stack)].si = @ + 1]
  /\ UNCHANGED <<call, current_solution, used_vehicles, best_solution, status,
                 result,
                 routeVars, cmpVars, validVars, demandVars>>

\* variant: only the first node of the subset is taken out of the remaining set
remaining_nodes_set_first_only(nodes_to_assign, nodes_subset) ==
  nodes_to_assign \ {nodes_subset[1]}

\* remaining_nodes_set = set(nodes_to_assign) - set(nodes_subset)
remaining_nodes_set(nodes_to_assign, nodes_subset) ==
  nodes_to_assign \ SetOfSeq(nodes_subset)

\* variant: the vehicle of the new trip is not marked as used
AssignSubset_unmarked ==
  /\ InLoop /\ Top.vi <= Len(Top.sorted_vehicles) /\ Top.si <= SubsetCount
  /\ is_valid_assignment(CurrentSubset, CurrentVehicle[3], CurrentVehicle[4])
  /\ LET route == RouteOf[CurrentSubset]
         trip  == <<CurrentVehicle[1], CurrentVehicle[2], CurrentSubset, route[1],
                    route[2], CurrentVehicle[5], route[3]>>
     IN  /\ current_solution' = Append(current_solution, trip)
         /\ used_vehicles' = used_vehicles
         /\ stack' = Append(stack,
                            EntryFrame(remaining_nodes_set(Top.nodes_to_assign,
                                                           CurrentSubset),
                                       current_solution', used_vehicles'))
  /\ UNCHANGED <<call, best_solution, status, result,
                 routeVars, cmpVars, validVars, demandVars>>

\* the subset fits: route it, append the trip, mark the vehicle, call recursively
AssignSubset ==
  /\ InLoop /\ Top.vi <= Len(Top.sorted_vehicles) /\ Top.si <= SubsetCount
  /\ is_valid_assignment(CurrentSubset, CurrentVehicle[3], CurrentVehicle[4])
  /\ LET route == RouteOf[CurrentSubset]
         trip  == <<CurrentVehicle[1], CurrentVehicle[2], CurrentSubset, route[1],
                    route[2], CurrentVehicle[5], route[3]>>
     IN  /\ current_solution' = Append(current_solution, trip)
         /\ used_vehicles' = used_vehicles \cup {CurrentVehicle[1]}
         /\ stack' = Append(stack,
                            EntryFrame(remaining_nodes_set(Top.nodes_to_assign,
                                                           CurrentSubset),
                                       current_solution', used_vehicles'))
  /\ UNCHANGED <<call, best_solution, status, result,
                 routeVars, cmpVars, validVars, demandVars>>

\* variant: after the recursive call the trip is removed but the vehicle stays used
Backtrack_keeps_vehicle ==
  /\ Running /\ Top.pc = "backtrack"
  /\ current_solution' = SubSeq(current_solution, 1, Len(current_solution) - 1)
  /\ used_vehicles' = used_vehicles
  /\ stack' = [stack EXCEPT ![Len(stack)] = [@ EXCEPT !.pc = "loop", !.si = @ + 1]]
  /\ UNCHANGED <<call, best_solution, status, result,
                 routeVars, cmpVars, validVars, demandVars>>

\* after the recursive call: current_solution.pop(); used_vehicles.remove(name)
Backtrack ==
  /\ Running /\ Top.pc = "backtrack"
  /\ current_solution' = SubSeq(current_solution, 1, Len(current_solution) - 1)
  /\ used_vehicles' = used_vehicles \ {CurrentVehicle[1]}
  /\ stack' = [stack EXCEPT ![Len(stack)] = [@ EXCEPT !.pc = "loop", !.si = @ + 1]]
  /\ UNCHANGED <<call, best_solution, status, result,
                 routeVars, cmpVars, validVars, demandVars>>

\* the subsets of this vehicle are exhausted: next vehicle of sorted_vehicles
NextVehicle ==
  /\ InLoop /\ Top.vi <= Len(Top.sorted_vehicles) /\ Top.si > SubsetCount
  /\ stack' = [stack EXCEPT ![Len(stack)] = [@ EXCEPT !.vi = @ + 1, !.si = 1]]
  /\ UNCHANGED <<call, current_solution, used_vehicles, best_solution, status,
                 result,
                 routeVars, cmpVars, validVars, demandVars>>

\* all vehicles tried: return best_solution
ReturnExhausted ==
  /\ InLoop /\ Top.vi > Len(Top.sorted_vehicles)
  /\ Return(best_solution)
  /\ UNCHANGED <<call, current_solution, used_vehicles,
                 routeVars, cmpVars, validVars, demandVars>>

\* (name, fixed_cost, trip_fuel_cost, trip_deliveries, path, distance, final_path)
FormatTrip(t) ==
  LET RECURSIVE deliveries(_)
      deliveries(ns) ==
        IF ns = <<>> THEN <<>>
        ELSE IF Head(ns) \in DOMAIN demands
               THEN << <<Head(ns), <<"H=", demands[Head(ns)][1]>>,
                         <<"K=", demands[Head(ns)][2]>> >> >> \o deliveries(Tail(ns))
               ELSE deliveries(Tail(ns))
  IN  <<TripName(t), TripFixed(t), TripDistance(t) * TripFuel(t),
        deliveries(TripNodes(t)), t[4], TripDistance(t), TripFinalPath(t)>>

\* the value solve_vehicle_routing returns for a solution
FormatSolution(solution) ==
  IF ~solution.completed THEN <<<<>>, 0, 0, 0, 0, 0, FALSE>>
  ELSE <<[k \in 1..Len(solution.trips) |-> FormatTrip(solution.trips[k])],
         solution.cost, solution.fixed_cost, solution.fuel_cost,
         solution.vehicles_used, solution.total_distance, TRUE>>

\* solve_vehicle_routing after find_optimal_solution returned
SolveReturn ==
  /\ status = "returned"
  /\ status' = "done"
  /\ result' = FormatSolution(best_solution)
  /\ UNCHANGED <<call, stack, current_solution, used_vehicles, best_solution,
                 routeVars, cmpVars, validVars, demandVars>>

Next ==
  \/ TerminalEvaluation
  \/ Prune
  \/ SortVehicles
  \/ SortRaises
  \/ SkipSubset
  \/ AssignSubset
  \/ Backtrack
  \/ NextVehicle
  \/ ReturnExhausted
  \/ SolveReturn

Spec == Init /\ [][Next]_vars

\* the search as a sequential program: a step that can be taken is taken
SpecLive == Spec /\ WF_vars(Next)

(***************************************************************************)
(* models/data.py: the demand table is changed between the calls of the    *)
(* search, never while one runs (the program has one thread).              *)
(***************************************************************************)
\* add_node_demand(node, h_demand, k_demand)
add_node_demand ==
  /\ status = "idle"
  /\ \E a \in AddInputs :
       /\ demands' = DemandsWith(demands, a[1], a[2], a[3])
       /\ active_delivery_nodes' =
            IF InSeq(a[1], active_delivery_nodes) THEN active_delivery_nodes
            ELSE Append(active_delivery_nodes, a[1])
  /\ UNCHANGED <<removed, searchVars, routeVars, cmpVars, validVars>>

\* remove_node_demand(node): the entry and the first occurrence of the node in
\* active_delivery_nodes go, and True is returned; False if there is no entry
remove_node_demand ==
  /\ status = "idle"
  /\ \E node \in RemoveInputs :
       IF node \in DOMAIN demands
         THEN /\ demands' = DemandsWithout(demands, node)
              /\ active_delivery_nodes' =
                   IF InSeq(node, active_delivery_nodes)
                     THEN RemoveAt(active_delivery_nodes,
                            MinOf({k \in 1..Len(active_delivery_nodes) :
                                     active_delivery_nodes[k] = node}))
                     ELSE active_delivery_nodes
              /\ removed' = <<TRUE>>
         ELSE /\ removed' = <<FALSE>>
              /\ UNCHANGED <<demands, active_delivery_nodes>>
  /\ UNCHANGED <<searchVars, routeVars, cmpVars, validVars>>

\* a top-level call is made: find_optimal_solution with its default arguments,
\* or solve_vehicle_routing, which reads the node set from the table
StartCall ==
  /\ status = "idle"
  /\ \E c \in DirectCalls \cup SolveCalls :
       /\ call' = c
       /\ stack' = <<EntryFrame(c.nodes_to_assign, <<>>, {})>>
  /\ current_solution' = <<>>
  /\ used_vehicles' = {}
  /\ best_solution' = InitialBest
  /\ status' = "running"
  /\ result' = <<>>
  /\ UNCHANGED <<routeVars, cmpVars, validVars, demandVars>>

DemandsInit ==
  /\ AsLoaded
  /\ IdleSearch
  /\ IdleRoute
  /\ IdleCmp
  /\ IdleValid

DemandsNext ==
  \/ add_node_demand
  \/ remove_node_demand
  \/ StartCall
  \/ Next

SpecDemands == DemandsInit /\ [][DemandsNext]_vars

(***************************************************************************)
(* The route optimizer on its own: find_best_route applied to a collection *)
(* of distinct node ids of the distance table other than the depot.        *)
(***************************************************************************)
MaxRouteLen == 3     \* most nodes in the argument of a lone find_best_route call

RouteUniverse == {1, 2, 3, 4, 5, 6, 7, 8}

RouteInputs ==
  LET seqs == UNION {[1..k -> RouteUniverse] : k \in 0..MaxRouteLen}
  IN  {t \in seqs : \A a, b \in 1..Len(t) : a # b => t[a] # t[b]}

RouteInit ==
  /\ route_in \in RouteInputs
  /\ route_out = <<>>
  /\ route_in2 = <<>>
  /\ route_out2 = <<>>
  /\ AsLoaded
  /\ IdleSearch
  /\ IdleCmp
  /\ IdleValid

RouteCall ==
  /\ status = "idle" /\ route_out = <<>>
  /\ route_out' = find_best_route(route_in)
  /\ UNCHANGED <<route_in, route_in2, route_out2, searchVars, cmpVars, validVars, demandVars>>

RouteNext == RouteCall

SpecRoute == RouteInit /\ [][RouteNext]_vars

(***************************************************************************)
(* Two calls of find_best_route on the same nodes, enumerated in two       *)
(* orders.                                                                 *)
(***************************************************************************)
ReorderInit ==
  /\ route_in \in RouteInputs
  /\ route_in2 \in SetOfSeq(permutations(route_in))
  /\ route_out = <<>>
  /\ route_out2 = <<>>
  /\ AsLoaded
  /\ IdleSearch
  /\ IdleCmp
  /\ IdleValid

RouteCallAgain ==
  /\ status = "idle" /\ route_out # <<>> /\ route_out2 = <<>>
  /\ route_out2' = find_best_route(route_in2)
  /\ UNCHANGED <<route_in, route_out, route_in2, searchVars, cmpVars, validVars, demandVars>>

ReorderNext == RouteCall \/ RouteCallAgain

SpecReorder == ReorderInit /\ [][ReorderNext]_vars

(***************************************************************************)
(* find_best_route applied to nodes of which one at least is not a node of *)
(* the distance table.                                                     *)
(***************************************************************************)
\* ids outside 0..8 (below -9, aliases of rows 0 and 8, above 8) and ids of the table
AbsentIds == {-10, -9, -1, 9}
AbsentUniverse == AbsentIds \cup {1, 2, 5}

AbsentInputs ==
  LET seqs == UNION {[1..k -> AbsentUniverse] : k \in 1..MaxRouteLen}
  IN  {t \in seqs : /\ \A a, b \in 1..Len(t) : a # b => t[a] # t[b]
                    /\ \E a \in 1..Len(t) : t[a] \in AbsentIds}

AbsentInit ==
  /\ route_in \in AbsentInputs
  /\ route_out = <<>>
  /\ route_in2 = <<>>
  /\ route_out2 = <<>>
  /\ AsLoaded
  /\ IdleSearch
  /\ IdleCmp
  /\ IdleValid

SpecAbsent == AbsentInit /\ [][RouteNext]_vars

(***************************************************************************)
(* The capacity validator on its own: is_valid_assignment applied to a     *)
(* list of node ids and two capacities.                                    *)
(***************************************************************************)
MaxValidLen == 3     \* most node ids in the nodes argument of a lone validator call
MaxCap == 4          \* largest h_cap and k_cap of a lone validator call

ValidInputs ==
  [nodes : UNION {[1..k -> NodeUniverse] : k \in 0..MaxValidLen},
   h_cap : 0..MaxCap, k_cap : 0..MaxCap]

ValidInit ==
  /\ valid_in \in ValidInputs
  /\ valid_out = <<>>
  /\ AsLoaded
  /\ IdleSearch
  /\ IdleRoute
  /\ IdleCmp

ValidCall ==
  /\ status = "idle" /\ valid_out = <<>>
  /\ valid_out' = <<is_valid_assignment(valid_in.nodes, valid_in.h_cap, valid_in.k_cap)>>
  /\ UNCHANGED <<valid_in, searchVars, routeVars, cmpVars, demandVars>>

ValidNext ==
  \/ ValidCall
  \/ add_node_demand
  \/ remove_node_demand

SpecValid == ValidInit /\ [][ValidNext]_vars

(***************************************************************************)
(* The comparator on its own: is_better_than applied to three solutions.   *)
(***************************************************************************)
MaxCmpValue == 1     \* largest cost, vehicle count and distance of a compared solution

CmpSolutions ==
  {InitialBest} \cup
  {[trips |-> <<>>, cost |-> c, fixed_cost |-> 0, fuel_cost |-> 0,
    vehicles_used |-> v, total_distance |-> d, completed |-> done] :
     c \in 0..MaxCmpValue, v \in 0..MaxCmpValue, d \in 0..MaxCmpValue,
     done \in BOOLEAN}

CmpInit ==
  /\ cmp_a \in CmpSolutions
  /\ cmp_b \in CmpSolutions
  /\ cmp_c \in CmpSolutions
  /\ cmp_out = <<>>
  /\ AsLoaded
  /\ IdleSearch
  /\ IdleRoute
  /\ IdleValid

Compare ==
  /\ status = "idle" /\ cmp_out = <<>>
  /\ cmp_out' = [aa |-> is_better_than(cmp_a, cmp_a),
                 ab |-> is_better_than(cmp_a, cmp_b),
                 ba |-> is_better_than(cmp_b, cmp_a),
                 bc |-> is_better_than(cmp_b, cmp_c),
                 ac |-> is_better_than(cmp_a, cmp_c),
                 inline_ab |-> better_solution(cmp_a, cmp_b)]
  /\ UNCHANGED <<cmp_a, cmp_b, cmp_c, searchVars, routeVars, validVars, demandVars>>

CmpNext == Compare

SpecCmp == CmpInit /\ [][CmpNext]_vars

(***************************************************************************)
(* Reference definitions for the properties: feasible complete assignments *)
(* of a call's nodes to its vehicles, enumerated without the search.       *)
(***************************************************************************)
RECURSIVE DemandOfSetIn(_, _, _)
DemandOfSetIn(table, S, c) ==
  IF S = {} THEN 0
  ELSE LET n == CHOOSE x \in S : TRUE
       IN  (IF n \in DOMAIN table THEN table[n][c] ELSE 0)
           + DemandOfSetIn(table, S \ {n}, c)

DemandOfSet(S, c) == DemandOfSetIn(demands, S, c)

\* the entries of a table for the nodes of S: all that the demand of S depends on
DemandsOn(table, S) == [n \in S \cap DOMAIN table |-> table[n]]

\* sum of the values of a function with a finite domain
RECURSIVE SumFn(_)
SumFn(f) ==
  IF DOMAIN f = {} THEN 0
  ELSE LET x == CHOOSE y \in DOMAIN f : TRUE
       IN  f[x] + SumFn([y \in DOMAIN f \ {x} |-> f[y]])

\* the nodes an assignment f (node -> index of a vehicle) gives to vehicle i
Part(f, i) == {n \in DOMAIN f : f[n] = i}
UsedIndexes(f) == {f[n] : n \in DOMAIN f}

FeasibleAssignments(table, nodes, vehicles) ==
  {f \in [nodes -> 1..Len(vehicles)] :
     \A i \in UsedIndexes(f) :
        /\ DemandOfSetIn(table, Part(f, i), 1) <= vehicles[i][3]
        /\ DemandOfSetIn(table, Part(f, i), 2) <= vehicles[i][4]}

RouteDistance(S) == RouteOf[ListOfSet(S)][2]

\* (total cost, vehicles used, total distance) of an assignment
AssignmentTriple(f, vehicles) ==
  LET dist == [i \in UsedIndexes(f) |-> RouteDistance(Part(f, i))]
      cost == [i \in UsedIndexes(f) |-> vehicles[i][2] + vehicles[i][5] * dist[i]]
  IN  <<SumFn(cost), Cardinality(UsedIndexes(f)), SumFn(dist)>>

FeasibleTriples(table, nodes, vehicles) ==
  {AssignmentTriple(f, vehicles) : f \in FeasibleAssignments(table, nodes, vehicles)}

\* the triples of the call, on the demand table as it is
CallTriples == FeasibleTriples(demands, call.nodes_to_assign, call.available_vehicles)

LexLess(t, u) ==
  \/ t[1] < u[1]
  \/ t[1] = u[1] /\ t[2] < u[2]
  \/ t[1] = u[1] /\ t[2] = u[2] /\ t[3] < u[3]

BestTriple ==
  <<best_solution.cost, best_solution.vehicles_used, best_solution.total_distance>>

\* the top-level find_optimal_solution has returned best_solution
Returned == status \in {"returned", "done"}

TripsWith(trips, n) == {k \in 1..Len(trips) : InSeq(n, TripNodes(trips[k]))}
NoRepeatedName(trips) ==
  \A a, b \in 1..Len(trips) : a # b => TripName(trips[a]) # TripName(trips[b])

\* C1: every node of the initial nodes_to_assign is in the node subset of exactly
\* one trip of a completed solution returned by find_optimal_solution
C1_ExactCover ==
  (Returned /\ best_solution.completed) =>
     \A n \in call.nodes_to_assign :
        Cardinality(TripsWith(best_solution.trips, n)) = 1

C1_Witness ==
  /\ Returned /\ best_solution.completed
  /\ Cardinality(call.nodes_to_assign) = 3
  /\ Len(best_solution.trips) = 2

\* C2: no vehicle name is in two trips, in the current partial solution at every
\* point of the search and in every solution recorded or returned
C2_DistinctVehicles ==
  /\ NoRepeatedName(current_solution)
  /\ NoRepeatedName(best_solution.trips)

C2_Witness ==
  /\ Len(current_solution) = 2
  /\ best_solution.completed /\ Len(best_solution.trips) = 2

\* C3: in every trip of every solution recorded or returned, the H demands and the
\* K demands of the trip's nodes sum to at most the capacities of the trip's vehicle
TripWithinCapacity(t, vehicles) ==
  \E k \in 1..Len(vehicles) :
     /\ vehicles[k][1] = TripName(t)
     /\ DemandOfSet(SetOfSeq(TripNodes(t)), 1) <= vehicles[k][3]
     /\ DemandOfSet(SetOfSeq(TripNodes(t)), 2) <= vehicles[k][4]

C3_Capacity ==
  \A k \in 1..Len(best_solution.trips) :
     TripWithinCapacity(best_solution.trips[k], call.available_vehicles)

\* a recorded solution with a trip that uses a capacity to the full
C3_Witness ==
  /\ best_solution.completed
  /\ \E k \in 1..Len(best_solution.trips), v \in 1..Len(call.available_vehicles) :
        /\ call.available_vehicles[v][1] = TripName(best_solution.trips[k])
        /\ DemandOfSet(SetOfSeq(TripNodes(best_solution.trips[k])), 2)
             = call.available_vehicles[v][4]
        /\ Len(TripNodes(best_solution.trips[k])) >= 2

\* C4: when find_optimal_solution returns a completed solution, no feasible complete
\* assignment has a smaller total cost (the pruning rule is part of the search)
C4_CostOptimal ==
  (Returned /\ best_solution.completed) =>
     \A t \in CallTriples : t[1] >= best_solution.cost

\* a returned optimum that beats another feasible assignment by more than 10 percent
C4_Witness ==
  /\ Returned /\ best_solution.completed
  /\ Len(best_solution.trips) >= 1
  /\ \E t \in CallTriples : 10 * t[1] > 11 * best_solution.cost

\* C5: the completed solution returned is least in the order (total cost, vehicles
\* used, total distance) among the feasible complete assignments
C5_LexMinimal ==
  (Returned /\ best_solution.completed) =>
     \A t \in CallTriples : ~LexLess(t, BestTriple)

\* the last tie-break decides: a feasible assignment of the same cost and vehicle
\* count with a longer distance exists
C5_Witness ==
  /\ Returned /\ best_solution.completed
  /\ \E t \in CallTriples :
        t[1] = BestTriple[1] /\ t[2] = BestTriple[2] /\ t[3] > BestTriple[3]

(***************************************************************************)
(* Properties of the route optimizer.                                      *)
(***************************************************************************)
Occurrences(x, p) == Cardinality({k \in 1..Len(p) : p[k] = x})
RouteDone == route_out # <<>>
FullPath == route_out[3]

\* C6: the full path of find_best_route starts and ends at depot 0, has 0 nowhere
\* else, has waypoints 5 and 6 once each and every other input node once, also for
\* an input that holds 5 or 6 and for the empty input
C6_PathShape ==
  RouteDone =>
     /\ FullPath[1] = Hub /\ FullPath[Len(FullPath)] = Hub
     /\ \A k \in 2..(Len(FullPath) - 1) : FullPath[k] # Hub
     /\ Occurrences(G, FullPath) = 1 /\ Occurrences(H, FullPath) = 1
     /\ \A n \in SetOfSeq(route_in) \ {G, H} : Occurrences(n, FullPath) = 1
     /\ Len(FullPath) = Cardinality(SetOfSeq(route_in) \ {G, H}) + 4

\* a route for an input that names a waypoint among other nodes
C6_Witness ==
  /\ RouteDone /\ Len(route_in) = 3 /\ InSeq(G, route_in)
  /\ Len(FullPath) = 6

\* C7: the waypoints are the last two nodes before the final return to the depot:
\* the full path ends with 5, 6, 0 or with 6, 5, 0
C7_WaypointsLast ==
  RouteDone =>
     SubSeq(FullPath, Len(FullPath) - 2, Len(FullPath))
       \in {<<G, H, Hub>>, <<H, G, Hub>>}

\* every order of visiting the nodes of a set
RECURSIVE Orderings(_)
Orderings(S) ==
  IF S = {} THEN {<<>>}
  ELSE UNION {{<<x>> \o t : t \in Orderings(S \ {x})} : x \in S}

\* the round trips from the depot over the input nodes and both waypoints
RoundTrips(nodes) ==
  {<<Hub>> \o t \o <<Hub>> : t \in Orderings(SetOfSeq(nodes) \cup {G, H})}

\* C8: for a non-empty input the distance of find_best_route is the least summed
\* distance over all round trips that visit the input nodes and both waypoints once
\* each in any order; the full path is such a round trip and sums to that distance
C8_GlobalMinimum ==
  (RouteDone /\ route_in # <<>>) =>
     /\ route_out[2] = MinOf({PathDistance(t) : t \in RoundTrips(route_in)})
     /\ FullPath \in RoundTrips(route_in)
     /\ PathDistance(FullPath) = route_out[2]

\* a minimum that no round trip ending with both waypoints attains
C8_Witness ==
  /\ RouteDone /\ Len(route_in) = 3
  /\ \A t \in RoundTrips(route_in) :
        SubSeq(t, Len(t) - 2, Len(t) - 1) \in {<<G, H>>, <<H, G>>}
          => PathDistance(t) > route_out[2]

(***************************************************************************)
(* Properties of the comparator.                                           *)
(***************************************************************************)
TripleOf(x) == <<x.cost, x.vehicles_used, x.total_distance>>

\* the stated order: a complete solution beats every incomplete one, no incomplete
\* one beats anything, complete ones compare by (cost, vehicles, distance)
StatedBetter(x, y) ==
  x.completed /\ (~y.completed \/ LexLess(TripleOf(x), TripleOf(y)))

\* C9: is_better_than is the stated order; it is irreflexive, asymmetric and
\* transitive, and complete solutions with equal triples are better in neither
\* direction
C9_Comparator ==
  cmp_out # <<>> =>
     /\ cmp_out.ab = StatedBetter(cmp_a, cmp_b)
     /\ cmp_out.ba = StatedBetter(cmp_b, cmp_a)
     /\ cmp_out.bc = StatedBetter(cmp_b, cmp_c)
     /\ cmp_out.ac = StatedBetter(cmp_a, cmp_c)
     /\ ~cmp_out.aa
     /\ ~(cmp_out.ab /\ cmp_out.ba)
     /\ (cmp_out.ab /\ cmp_out.bc) => cmp_out.ac
     /\ (cmp_a.completed /\ cmp_b.completed /\ TripleOf(cmp_a) = TripleOf(cmp_b))
          => (~cmp_out.ab /\ ~cmp_out.ba)

\* a chain a < b < c of complete solutions decided by the two tie-breaks
C9_Witness ==
  /\ cmp_out # <<>>
  /\ cmp_a.completed /\ cmp_b.completed /\ cmp_c.completed
  /\ cmp_a.cost = cmp_b.cost /\ cmp_b.cost = cmp_c.cost
  /\ cmp_a.vehicles_used < cmp_b.vehicles_used
  /\ cmp_b.vehicles_used = cmp_c.vehicles_used
  /\ cmp_b.total_distance < cmp_c.total_distance
  /\ cmp_out.ab /\ cmp_out.bc /\ cmp_out.ac

(***************************************************************************)
(* Outcome of the search.                                                  *)
(***************************************************************************)
\* the top-level call has ended, by a return or by an exception
Ended == status \in {"returned", "done", "raised"}

\* C10: find_optimal_solution returns, with completed = FALSE exactly when no
\* feasible complete assignment exists and completed = TRUE whenever one exists;
\* in the infeasible case solve_vehicle_routing returns ([], 0, 0, 0, 0, 0, False)
C10_CompletedIffFeasible ==
  Ended =>
     /\ Returned
     /\ best_solution.completed = (CallTriples # {})
     /\ (status = "done" /\ call.fn = "solve_vehicle_routing" /\ CallTriples = {})
          => result = <<<<>>, 0, 0, 0, 0, 0, FALSE>>

\* C11: called with an empty node set, find_optimal_solution returns, for any
\* vehicle list, a completed solution with no trips, zero vehicles used, and 0 for
\* the total, fixed and fuel cost and for the total distance
C11_EmptyNodeSet ==
  (Ended /\ call.fn = "find_optimal_solution" /\ call.nodes_to_assign = {}) =>
     /\ status = "done"
     /\ result = [trips |-> <<>>, cost |-> 0, fixed_cost |-> 0, fuel_cost |-> 0,
                  vehicles_used |-> 0, total_distance |-> 0, completed |-> TRUE]

\* the empty node set with a vehicle list whose sort key would divide by zero
C11_Witness ==
  /\ status = "done" /\ call.fn = "find_optimal_solution"
  /\ call.nodes_to_assign = {}
  /\ Len(call.available_vehicles) = 2 /\ KeyRaises(call.available_vehicles)
  /\ result.completed

(***************************************************************************)
(* Properties of two route optimizer calls on one node set.                *)
(***************************************************************************)
BothRouted == route_out # <<>> /\ route_out2 # <<>>

\* C12: two calls of find_best_route whose inputs hold the same nodes, in any order
\* of enumeration, return the same distance and the same full path
C12_SameRoute ==
  BothRouted => (route_out[2] = route_out2[2] /\ route_out[3] = route_out2[3])

(***************************************************************************)
(* Node ids that are not in the distance table.                            *)
(***************************************************************************)
InTable(n) == 0 <= n /\ n < Len(distance_matrix)

\* C14: when a node id of the input is not in the distance table (not in 0..8,
\* negative ids included), find_best_route signals an error and returns no route
C14_AbsentIdRaises ==
  (RouteDone /\ \E k \in 1..Len(route_in) : ~InTable(route_in[k])) =>
     route_out = IndexError

(***************************************************************************)
(* Nodes without a demand entry.                                           *)
(***************************************************************************)
\* C15: when the node set of the search holds a node id that is not in the demand
\* table, the search raises an error and returns no solution; the node is never
\* treated as a node with zero demand
C15_UnknownDemandRaises ==
  (Ended /\ call.nodes_to_assign \ DOMAIN demands # {}) => status = "raised"

(***************************************************************************)
(* The empty input of the route optimizer.                                 *)
(***************************************************************************)
EmptyRouted == RouteDone /\ route_in = <<>>
ViaG == <<Hub, G, H, Hub>>
ViaH == <<Hub, H, G, Hub>>

\* the waypoint with the smaller distance from the depot
NearerWaypoint == IF Dist(Hub, G) < Dist(Hub, H) THEN G ELSE H

\* C16 as stated: for an empty input the path is depot, nearer waypoint, other
\* waypoint, depot, the first waypoint being the one nearer to the depot, and the
\* path has the smaller total distance of the two waypoint orders
C16_NearerFirst ==
  EmptyRouted =>
     /\ FullPath \in {ViaG, ViaH}
     /\ FullPath[2] = NearerWaypoint
     /\ route_out[2] = MinOf({PathDistance(ViaG), PathDistance(ViaH)})

\* C16: for an empty input find_best_route returns ([0], distance, path) where the
\* path is 0, 5, 6, 0 when its total distance is at most that of 0, 6, 5, 0 and
\* is 0, 6, 5, 0 otherwise, and the distance is the smaller of the two totals
C16_ShorterOrderGFirst ==
  EmptyRouted =>
     /\ route_out[1] = <<Hub>>
     /\ FullPath = (IF PathDistance(ViaG) <= PathDistance(ViaH) THEN ViaG ELSE ViaH)
     /\ route_out[2] = PathDistance(FullPath)
     /\ route_out[2] = MinOf({PathDistance(ViaG), PathDistance(ViaH)})

\* the two orders tie and the path starts with the waypoint farther from the depot
C16_Witness ==
  /\ EmptyRouted
  /\ PathDistance(ViaG) = PathDistance(ViaH)
  /\ Dist(Hub, FullPath[2]) > Dist(Hub, FullPath[3])

(***************************************************************************)
(* Properties of the capacity validator.                                   *)
(***************************************************************************)
\* the demand of kind c of a list of nodes: each entry of the demand table counted
\* as often as its node is in the list
Load(nodes, c) ==
  SumFn([n \in DOMAIN demands |-> demands[n][c] * Occurrences(n, nodes)])

\* C17: is_valid_assignment(nodes, h_cap, k_cap) returns a Boolean, TRUE exactly
\* when the H demands of the nodes sum to at most h_cap and their K demands to at
\* most k_cap, for every list of nodes and pair of capacities; it raises nothing
\* and leaves the rest of the state as it was
C17_ValidIffWithinBoth ==
  [][(valid_out = <<>> /\ valid_out' # <<>>) =>
       /\ valid_out'[1] \in BOOLEAN
       /\ valid_out'[1] = (Load(valid_in.nodes, 1) <= valid_in.h_cap
                           /\ Load(valid_in.nodes, 2) <= valid_in.k_cap)
       /\ UNCHANGED <<valid_in, searchVars, routeVars, cmpVars, demandVars>>]_vars

\* three nodes, one of them twice, that use both capacities to the full
C17_Witness ==
  /\ valid_out = <<TRUE>>
  /\ Len(valid_in.nodes) = 3
  /\ Cardinality(SetOfSeq(valid_in.nodes)) = 2
  /\ Load(valid_in.nodes, 1) = valid_in.h_cap
  /\ Load(valid_in.nodes, 2) = valid_in.k_cap

(***************************************************************************)
(* The figures of a returned solution.                                     *)
(***************************************************************************)
\* the vehicle of the call that a trip names
VehicleOf(t) ==
  CHOOSE v \in SetOfSeq(call.available_vehicles) : v[1] = TripName(t)

\* C18: in every completed solution returned by find_optimal_solution, fixed_cost
\* is the sum of the fixed costs of the trips' vehicles, fuel_cost the sum over the
\* trips of distance times the vehicle's fuel cost per distance, cost their sum,
\* vehicles_used the number of trips and total_distance the sum of the trips'
\* distances
C18_Accounting ==
  (Returned /\ best_solution.completed) =>
     LET trips == best_solution.trips
         fixed == [k \in 1..Len(trips) |-> VehicleOf(trips[k])[2]]
         fuel  == [k \in 1..Len(trips) |->
                     TripDistance(trips[k]) * VehicleOf(trips[k])[5]]
         dist  == [k \in 1..Len(trips) |-> TripDistance(trips[k])]
     IN  /\ best_solution.fixed_cost = SumFn(fixed)
         /\ best_solution.fuel_cost = SumFn(fuel)
         /\ best_solution.cost = best_solution.fixed_cost + best_solution.fuel_cost
         /\ best_solution.vehicles_used = Len(trips)
         /\ best_solution.total_distance = SumFn(dist)

\* a returned solution of two trips, one with a vehicle that burns no fuel
C18_Witness ==
  /\ Returned /\ best_solution.completed
  /\ Len(best_solution.trips) = 2
  /\ best_solution.fuel_cost > 0
  /\ best_solution.fuel_cost < best_solution.total_distance

(***************************************************************************)
(* The vehicle restriction of solve_vehicle_routing.                       *)
(***************************************************************************)
\* C19: when solve_vehicle_routing is called with restricted_vehicles given, every
\* trip of the result uses a vehicle named in restricted_vehicles; for an empty
\* restricted_vehicles no vehicle is used
C19_OnlyRestricted ==
  (status = "done" /\ call.fn = "solve_vehicle_routing"
     /\ call.restricted_vehicles.given) =>
     \A k \in 1..Len(result[1]) : result[1][k][1] \in call.restricted_vehicles.names

(***************************************************************************)
(* Backtracking.                                                           *)
(***************************************************************************)
\* a step in which the innermost call of find_optimal_solution returns
CallReturns == status = "running" /\ status' # "raised" /\ Len(stack') < Len(stack)

\* C20: when a call of find_optimal_solution returns (after a terminal evaluation,
\* a pruning, or exhausting its branches), current_solution and used_vehicles are
\* equal to their values at that call's entry; when the top-level call returns
\* both are empty
C20_FrameRestored ==
  [][CallReturns =>
       /\ current_solution' = Top.entry_solution
       /\ used_vehicles' = Top.entry_used
       /\ Len(stack) = 1 => (current_solution' = <<>> /\ used_vehicles' = {})]_vars

\* a call entered with two trips has returned to its caller after earlier
\* branches of that caller were tried and undone
C20_Witness ==
  /\ status = "running" /\ Len(stack) = 2
  /\ Top.pc = "backtrack" /\ Top.si > 1
  /\ Len(current_solution) = 2
  /\ best_solution.completed

(***************************************************************************)
(* The partial assignment at the entry of a call.                          *)
(***************************************************************************)
\* the innermost call of find_optimal_solution is at its entry
AtEntry == Running /\ Top.pc = "entry"
\* its depth: the number of calls above it
Depth == Len(stack) - 1

\* C21: at the entry of every call of find_optimal_solution at depth d,
\* current_solution holds exactly d trips, used_vehicles is the set of the d
\* distinct vehicle names of those trips, the trips' node subsets are non-empty and
\* pairwise disjoint, and with nodes_to_assign they partition the original node set
C21_EntryPartition ==
  AtEntry =>
     LET names == {TripName(current_solution[k]) : k \in 1..Len(current_solution)}
         part(k) == SetOfSeq(TripNodes(current_solution[k]))
     IN  /\ Len(current_solution) = Depth
         /\ used_vehicles = names
         /\ Cardinality(names) = Depth
         /\ \A k \in 1..Depth : part(k) # {}
         /\ \A k \in 1..Depth :
               Cardinality(part(k)) = Len(TripNodes(current_solution[k]))
         /\ \A j, k \in 1..Depth : j # k => part(j) \cap part(k) = {}
         /\ \A k \in 1..Depth : part(k) \cap Top.nodes_to_assign = {}
         /\ UNION {part(k) : k \in 1..Depth} \cup Top.nodes_to_assign
              = call.nodes_to_assign

\* a call entered at depth 2 with a node still to assign
C21_Witness ==
  /\ AtEntry /\ Depth = 2
  /\ Top.nodes_to_assign # {}
  /\ Len(TripNodes(current_solution[1])) + Len(TripNodes(current_solution[2])) >= 3

(***************************************************************************)
(* The pruning test.                                                       *)
(***************************************************************************)
\* a call with nodes left decides, with a complete solution recorded, whether to
\* go on; the step is not the ZeroDivisionError of the sort
PruneDecision ==
  /\ AtEntry /\ Top.nodes_to_assign # {} /\ best_solution.completed
  /\ status' # "raised"

\* the call returns at once: the branch is abandoned
Abandoned == Len(stack') < Len(stack)

\* the bound with the fuel estimate: current cost + least fixed cost of an unused
\* vehicle + 5 for each remaining node, against 1.1 times the best cost (in tenths)
BoundWithFuelEstimate ==
  10 * (FixedCostOf(current_solution) + FuelCostOf(current_solution)
        + min_additional_fixed_cost(call.available_vehicles, used_vehicles)
        + min_additional_fuel_cost(Top.nodes_to_assign)) > 11 * best_solution.cost

\* C22: once a complete solution is recorded, a branch with remaining nodes is
\* abandoned exactly when current cost + least fixed cost of an unused vehicle +
\* 5 x number of remaining nodes exceeds 1.1 times the best known total cost
C22_FuelEstimateCompared ==
  [][PruneDecision => (Abandoned <=> BoundWithFuelEstimate)]_vars

\* the least cost of assigning all nodes S to the vehicles vs, Inf if there is no
\* such assignment
LeastCompletionCost(table, S, vs) ==
  LET costs == {t[1] : t \in FeasibleTriples(table, S, vs)}
  IN  IF costs = {} THEN Inf ELSE MinOf(costs)

\* the branches of the searches of solve_vehicle_routing: nodes left to assign and
\* vehicles left unused
SolveBranchKeys ==
  UNION {{<<DemandsOn(t, S), S, UnusedVehicles(c.available_vehicles, U)>> :
            S \in SUBSET (DOMAIN t), U \in SUBSET VehicleNames,
            c \in SolveCallsOn(t)} : t \in DemandTables}

\* their least costs, tabulated once
LeastCompletionCostOf ==
  [k \in SolveBranchKeys |-> LeastCompletionCost(k[1], k[2], k[3])] @@ <<>>

\* the least total cost of a complete assignment that extends current_solution
LeastCostInBranch ==
  LET unused == UnusedVehicles(call.available_vehicles, used_vehicles)
      table == DemandsOn(demands, Top.nodes_to_assign)
      rest == IF call.fn = "solve_vehicle_routing"
                THEN LeastCompletionCostOf[<<table, Top.nodes_to_assign, unused>>]
                ELSE LeastCompletionCost(table, Top.nodes_to_assign, unused)
  IN  IF rest = Inf THEN Inf
      ELSE FixedCostOf(current_solution) + FuelCostOf(current_solution) + rest

\* C23: a branch is abandoned by the pruning test only when a complete solution is
\* recorded, and then no complete assignment of the branch has a total cost less
\* than or equal to the best total cost recorded at that moment
C23_PruneLosesNothing ==
  [][(AtEntry /\ Top.nodes_to_assign # {} /\ status' # "raised" /\ Abandoned) =>
       /\ best_solution.completed
       /\ LeastCostInBranch > best_solution.cost]_vars

\* a call about to be abandoned whose branch holds a complete assignment within
\* 1.2 times the best cost
C23_Witness ==
  /\ AtEntry /\ Top.nodes_to_assign # {} /\ best_solution.completed
  /\ ActivePruneTest
  /\ LeastCostInBranch < Inf
  /\ 10 * LeastCostInBranch <= 12 * best_solution.cost

(***************************************************************************)
(* The order of the vehicles.                                              *)
(***************************************************************************)
\* position of a vehicle in the vehicle list of the call
ListedAt(v) ==
  CHOOSE k \in 1..Len(call.available_vehicles) : call.available_vehicles[k] = v

\* ratio(v) >= ratio(w) and ratio(v) = ratio(w) for the ratio
\* (h_cap + k_cap) / (fixed_cost + 10 * fuel_cost) with positive denominators
RatioAtLeast(v, w) ==
  (v[3] + v[4]) * (w[2] + 10 * w[5]) >= (w[3] + w[4]) * (v[2] + 10 * v[5])
RatioSame(v, w) ==
  (v[3] + v[4]) * (w[2] + 10 * w[5]) = (w[3] + w[4]) * (v[2] + 10 * v[5])

\* the vehicles a call past its sort goes through: the vehicles unused at its
\* entry, each once, by decreasing ratio and as listed where the ratios are equal
OrderedFrame(f) ==
  LET sv == f.sorted_vehicles
  IN  /\ SetOfSeq(sv) = {v \in SetOfSeq(call.available_vehicles) :
                           v[1] \notin f.entry_used}
      /\ \A i, j \in 1..Len(sv) : i < j =>
            /\ sv[i] # sv[j]
            /\ RatioAtLeast(sv[i], sv[j])
            /\ RatioSame(sv[i], sv[j]) => ListedAt(sv[i]) < ListedAt(sv[j])

\* the innermost call, once past its sort (the calls above it do not change while
\* it runs)
OrderedTop == (stack # <<>> /\ Top.pc # "entry") => OrderedFrame(Top)

\* C24: at every recursion level the unused vehicles are tried in decreasing order
\* of (h_cap + k_cap) / (fixed_cost + 10 * fuel_cost), vehicles of equal ratio in
\* their order in the vehicle list, one after the other; a vehicle in
\* used_vehicles is never tried
C24_VehicleOrder ==
  [][/\ OrderedTop'
     /\ (InLoop /\ Len(stack') = Len(stack) /\ Top'.pc = "loop") =>
          (Top'.vi = Top.vi \/ (Top'.vi = Top.vi + 1 /\ Top.si > SubsetCount))
     /\ (InLoop /\ Len(stack') > Len(stack)) =>
          /\ TripName(current_solution'[Len(current_solution')])
               = Top.sorted_vehicles[Top.vi][1]
          /\ Top.sorted_vehicles[Top.vi][1] \notin used_vehicles]_vars

\* a call trying the second of two vehicles that it does not try as listed
C24_Witness ==
  /\ InLoop /\ Len(Top.sorted_vehicles) = 2 /\ Top.vi = 2
  /\ Top.sorted_vehicles # UnusedVehicles(call.available_vehicles, Top.entry_used)
  /\ Len(current_solution) = Depth

(***************************************************************************)
(* The enumeration of the node subsets.                                    *)
(***************************************************************************)
\* a list of node tuples holds every non-empty subset of S exactly once, larger
\* subsets never after smaller ones
AllSubsetsOnce(S, subs) ==
  /\ \A q \in 1..Len(subs) :
        /\ SetOfSeq(subs[q]) \in (SUBSET S) \ {{}}
        /\ Cardinality(SetOfSeq(subs[q])) = Len(subs[q])
  /\ \A T \in (SUBSET S) \ {{}} :
        Cardinality({q \in 1..Len(subs) : SetOfSeq(subs[q]) = T}) = 1
  /\ \A q \in 1..(Len(subs) - 1) : Len(subs[q]) >= Len(subs[q + 1])

\* AllSubsetsOnce for the subsets the loops go through, tabulated once
AllSubsetsOnceOf ==
  [S \in SearchNodeSets |-> AllSubsetsOnce(S, NodeSubsetsOf[S])] @@ <<>>

\* the subset at hand fits the vehicle at hand
Fits == is_valid_assignment(CurrentSubset, CurrentVehicle[3], CurrentVehicle[4])

\* C25: for each vehicle tried at a recursion level every non-empty subset of the
\* unassigned nodes is considered exactly once, by non-increasing cardinality; a
\* subset rejected by is_valid_assignment changes neither current_solution nor
\* used_vehicles and starts no call; an accepted subset leads to exactly one
\* recursive call, on the complement set
C25_SubsetEnumeration ==
  [][/\ InLoop => AllSubsetsOnceOf[Top.nodes_to_assign]
     /\ (InLoop /\ Top.vi <= Len(Top.sorted_vehicles) /\ Top.si <= SubsetCount) =>
          IF Fits
            THEN /\ Len(stack') = Len(stack) + 1
                 /\ Top'.pc = "entry"
                 /\ Top'.nodes_to_assign = Top.nodes_to_assign \ SetOfSeq(CurrentSubset)
                 /\ stack'[Len(stack)].vi = Top.vi /\ stack'[Len(stack)].si = Top.si
            ELSE /\ Len(stack') = Len(stack)
                 /\ Top'.vi = Top.vi /\ Top'.si = Top.si + 1
                 /\ current_solution' = current_solution
                 /\ used_vehicles' = used_vehicles
                 /\ best_solution' = best_solution
     /\ (Running /\ Top.pc = "backtrack") =>
          /\ Len(stack') = Len(stack) /\ Top'.pc = "loop"
          /\ Top'.vi = Top.vi /\ Top'.si = Top.si + 1
     /\ (InLoop /\ Len(stack') = Len(stack) /\ Top'.vi # Top.vi) =>
          /\ Top.si = SubsetCount + 1
          /\ Top'.vi = Top.vi + 1 /\ Top'.si = 1]_vars

\* all seven subsets of three nodes were considered for the second vehicle, some
\* of them rejected and some accepted
C25_Witness ==
  /\ InLoop /\ Cardinality(Top.nodes_to_assign) = 3
  /\ Top.vi = 2 /\ Top.si = 8
  /\ \E q \in 1..7 :
        ~is_valid_assignment(NodeSubsetsOf[Top.nodes_to_assign][q],
                             CurrentVehicle[3], CurrentVehicle[4])
  /\ \E q \in 1..7 :
        is_valid_assignment(NodeSubsetsOf[Top.nodes_to_assign][q],
                            CurrentVehicle[3], CurrentVehicle[4])

(***************************************************************************)
(* The recorded best solution.                                             *)
(***************************************************************************)
\* C26: during a search best_solution changes only at a terminal evaluation (no
\* nodes left), to the candidate made of current_solution, and only when no
\* complete solution was recorded or the candidate is strictly less in (cost,
\* vehicles, distance); so the recorded bests strictly improve and of equal
\* solutions the first found stays
C26_BestOnlyImproves ==
  [][(status = "running" /\ best_solution' # best_solution) =>
       /\ Top.pc = "entry" /\ Top.nodes_to_assign = {}
       /\ best_solution'.completed
       /\ best_solution'.trips = current_solution
       /\ (~best_solution.completed
            \/ LexLess(TripleOf(best_solution'), TripleOf(best_solution)))]_vars

\* a terminal evaluation of a candidate equal in cost, vehicle count and distance
\* to the recorded best, made of other trips
C26_Witness ==
  /\ AtEntry /\ Top.nodes_to_assign = {}
  /\ best_solution.completed
  /\ TripleOf(Candidate(current_solution)) = TripleOf(best_solution)
  /\ current_solution # best_solution.trips

(***************************************************************************)
(* Termination.                                                            *)
(***************************************************************************)
\* the smaller of the number of nodes and the number of vehicles of the call
DepthLimit ==
  IF Cardinality(call.nodes_to_assign) < Len(call.available_vehicles)
    THEN Cardinality(call.nodes_to_assign)
    ELSE Len(call.available_vehicles)

\* every active call below the top-level one has fewer nodes to assign and more
\* used vehicles than its caller had at its entry
CallsShrink ==
  \A k \in 2..Len(stack) :
     /\ stack[k].nodes_to_assign \subseteq stack[k - 1].nodes_to_assign
     /\ stack[k].nodes_to_assign # stack[k - 1].nodes_to_assign
     /\ stack[k - 1].entry_used \subseteq stack[k].entry_used
     /\ stack[k - 1].entry_used # stack[k].entry_used

\* C27: find_optimal_solution terminates: each recursive call receives a strictly
\* smaller nodes_to_assign and a strictly larger used_vehicles, the recursion depth
\* never exceeds min(number of nodes, number of vehicles), and the top-level call
\* eventually returns a solution
C27_Terminates ==
  /\ [](CallsShrink /\ Len(stack) - 1 <= DepthLimit)
  /\ <>Returned

(***************************************************************************)
(* The node subsets routed for solve_vehicle_routing.  Each trip of        *)
(* current_solution records one call of find_best_route: its argument and  *)
(* the three values returned.                                              *)
(***************************************************************************)
FromSolve == call.fn = "solve_vehicle_routing"

\* C28 as stated: in every call of find_best_route made by the search started from
\* solve_vehicle_routing the node subset holds neither the depot 0 nor the
\* waypoints 5 and 6
C28_NoWaypointRouted ==
  FromSolve =>
     \A k \in 1..Len(current_solution) :
        SetOfSeq(TripNodes(current_solution[k])) \cap {Hub, G, H} = {}

\* C28: in every call of find_best_route made by the search started from
\* solve_vehicle_routing the node subset is a non-empty set of keys of the demand
\* table without the depot 0; it may hold the waypoints 5 and 6, which are keys of
\* the demand table, and find_best_route then leaves them out of the order it
\* returns and visits each once in the full path
C28_DemandKeysRouted ==
  FromSolve =>
     \A k \in 1..Len(current_solution) :
        LET t == current_solution[k]
        IN  /\ TripNodes(t) # <<>>
            /\ SetOfSeq(TripNodes(t)) \subseteq DOMAIN demands
            /\ Hub \notin SetOfSeq(TripNodes(t))
            /\ SetOfSeq(t[4]) = {Hub} \cup (SetOfSeq(TripNodes(t)) \ {G, H})
            /\ Occurrences(G, TripFinalPath(t)) = 1
            /\ Occurrences(H, TripFinalPath(t)) = 1

\* a trip of the search of solve_vehicle_routing whose node subset holds both
\* waypoints and another node
C28_Witness ==
  /\ FromSolve
  /\ \E k \in 1..Len(current_solution) :
        /\ {G, H} \subseteq SetOfSeq(TripNodes(current_solution[k]))
        /\ Len(TripNodes(current_solution[k])) = 3
  /\ {G, H} \subseteq DOMAIN demands

(***************************************************************************)
(* The inline acceptance test and the comparator.                          *)
(***************************************************************************)
\* C29: the acceptance test written inline in the terminal evaluation decides as
\* VRPSolution.is_better_than: for every complete candidate and every recorded
\* best, complete or not, the candidate replaces the best exactly when
\* candidate.is_better_than(best) is TRUE
C29_InlineIsComparator ==
  (cmp_out # <<>> /\ cmp_a.completed) => (cmp_out.inline_ab = cmp_out.ab)

\* a candidate accepted on the distance tie-break alone
C29_Witness ==
  /\ cmp_out # <<>>
  /\ cmp_a.completed /\ cmp_b.completed
  /\ cmp_a.cost = cmp_b.cost /\ cmp_a.vehicles_used = cmp_b.vehicles_used
  /\ cmp_a.total_distance < cmp_b.total_distance
  /\ cmp_out.inline_ab /\ cmp_out.ab

\* C30: find_optimal_solution raises no error while ordering the vehicles, for
\* every vehicle list with fixed costs and fuel costs >= 0, a vehicle whose fixed
\* cost and fuel cost are both 0 included
C30_SortNeverRaises == status # "raised"

=============================================================================
